---- MODULE Spec2Model ----
(***************************************************************************)
(* A model of simple_xml: the callback-driven parser of xml_parse.h (the   *)
(* cursor, the lexical productions, xml_read_header, xml_read_tag and      *)
(* xml_read_document) and the DOM of xml_dom.h (xml_dom_entity, the DOM    *)
(* builder callbacks, xml_dom_parse and the stream operator).              *)
(*                                                                         *)
(* A character is a one-character string, a std::string is a sequence of   *)
(* characters.  The parser runs one loop iteration per step; the lexical   *)
(* productions, whose loops advance on every path, are operators.          *)
(***************************************************************************)
EXTENDS Integers, Sequences, FiniteSets, TLC

VARIABLES
    buffer,         \* xml_state::buffer
    pos,            \* xml_state::pos
    line_number,    \* xml_state::line_number
    column_number,  \* xml_state::column_number
    err,            \* the fatal error thrown by xml_error, or NoError
    events,         \* the callbacks invoked so far, in order
    callstack,      \* the active loops: the document loop, then header or tag frames
    status,         \* "idle", "running", "returned", "error"
    heap,           \* the xml_dom_entity objects allocated so far, by address 1..Len
    stack,          \* the construction stack of xml_dom_parse (addresses)
    doc,            \* the Document root xml_dom_parse created (an address)
    orig,           \* the Document root of the tree the caller built (an address)
    last_step,      \* the step taken last
    last_pos,       \* pos before the step taken last
    last_count,     \* the number of events before the step taken last
    result          \* the value the last navigation query returned

vars == <<buffer, pos, line_number, column_number, err, events, callstack,
          status, heap, stack, doc, orig, last_step, last_pos, last_count, result>>

(***************************************************************************)
(* Characters                                                              *)
(***************************************************************************)
NUL == "NUL"

Lower == {"a","b","c","d","e","f","g","h","i","j","k","l","m",
          "n","o","p","q","r","s","t","u","v","w","x","y","z"}

Upper == {"A","B","C","D","E","F","G","H","I","J","K","L","M",
          "N","O","P","Q","R","S","T","U","V","W","X","Y","Z"}

DigitChars == {"0","1","2","3","4","5","6","7","8","9"}

SpaceChars == {" ", "\t", "\n", "\r", "\f", "VT"}

xml_is_space(ch) == ch \in SpaceChars

xml_is_digit(ch) == ch \in DigitChars

xml_is_alpha(ch) == ch \in Lower \cup Upper

xml_is_valid_name_char(ch) == xml_is_alpha(ch) \/ xml_is_digit(ch) \/ ch = "_"

(***************************************************************************)
(* The cursor: a record [pos, line_number, column_number, err].  Once err  *)
(* is set the exception is in flight and every later operation is skipped. *)
(***************************************************************************)
NoError == [fn |-> "none"]

NULL == 0

Cursor == [pos |-> pos, line_number |-> line_number,
           column_number |-> column_number, err |-> err]

Failed(c) == c.err # NoError

xml_error(c, e) == [c EXCEPT !.err = e]

xml_eof(c) == c.pos = Len(buffer)

InRange(c, offset) == c.pos + offset >= 0 /\ c.pos + offset < Len(buffer)

\* the character xml_peek returns when the index is in range
CharAt(c, offset) == buffer[c.pos + offset + 1]

PeekError(c, offset) ==
    xml_error(c, [fn |-> "xml_peek", index |-> c.pos + offset, size |-> Len(buffer)])

\* faulty variant: the column is not reset at a newline
xml_advance_NoReset(c) ==
    IF buffer[c.pos + 1] = "\n"
    THEN [c EXCEPT !.line_number = @ + 1, !.column_number = @ + 1, !.pos = @ + 1]
    ELSE [c EXCEPT !.column_number = @ + 1, !.pos = @ + 1]

xml_advance(c) ==
    IF buffer[c.pos + 1] = "\n"
    THEN [c EXCEPT !.line_number = @ + 1, !.column_number = 0, !.pos = @ + 1]
    ELSE [c EXCEPT !.column_number = @ + 1, !.pos = @ + 1]

\* faulty variant: at the end of the buffer the cursor still moves
xml_match_PastEnd(c, match) ==
    IF Failed(c) THEN c
    ELSE IF ~InRange(c, 0) THEN [PeekError(c, 0) EXCEPT !.pos = @ + 1]
    ELSE IF CharAt(c, 0) # match
         THEN xml_error(c, [fn |-> "xml_match", expected |-> match,
                            got |-> CharAt(c, 0), line |-> c.line_number])
    ELSE xml_advance(c)

xml_match(c, match) ==
    IF Failed(c) THEN c
    ELSE IF ~InRange(c, 0) THEN PeekError(c, 0)
    ELSE IF CharAt(c, 0) # match
         THEN xml_error(c, [fn |-> "xml_match", expected |-> match,
                            got |-> CharAt(c, 0), line |-> c.line_number])
    ELSE xml_advance(c)

RECURSIVE xml_eat_space(_)
xml_eat_space(c) ==
    IF Failed(c) \/ xml_eof(c) THEN c
    ELSE IF xml_is_space(CharAt(c, 0)) THEN xml_eat_space(xml_advance(c))
    ELSE c

(***************************************************************************)
(* Lexical productions: each returns [c |-> the cursor after, val |-> the  *)
(* string read].                                                           *)
(***************************************************************************)
RECURSIVE StringLoop(_, _)
StringLoop(c, str) ==
    IF ~xml_eof(c) /\ CharAt(c, 0) # "\""
    THEN StringLoop(xml_advance(c), Append(str, CharAt(c, 0)))
    ELSE [c |-> c, val |-> str]

xml_parse_string(c0) ==
    LET c1 == xml_match(xml_eat_space(c0), "\"")
    IN  IF Failed(c1) THEN [c |-> c1, val |-> <<>>]
        ELSE LET r == StringLoop(c1, <<>>)
             IN  [c |-> xml_match(r.c, "\""), val |-> Append(r.val, NUL)]

RECURSIVE NameLoop(_, _)
NameLoop(c, name) ==
    IF ~xml_eof(c) /\ xml_is_valid_name_char(CharAt(c, 0))
    THEN NameLoop(xml_advance(c), Append(name, CharAt(c, 0)))
    ELSE [c |-> c, val |-> name]

xml_read_name(c0) ==
    LET c1 == xml_eat_space(c0)
    IN  IF Failed(c1) THEN [c |-> c1, val |-> <<>>]
        ELSE IF ~InRange(c1, 0) THEN [c |-> PeekError(c1, 0), val |-> <<>>]
        ELSE IF ~xml_is_alpha(CharAt(c1, 0))
             THEN [c |-> xml_error(c1, [fn |-> "xml_read_name", got |-> CharAt(c1, 0),
                                        line |-> c1.line_number]),
                   val |-> <<>>]
        ELSE NameLoop(c1, <<>>)

RECURSIVE TextLoop(_, _)
TextLoop(c, text) ==
    IF ~xml_eof(c) /\ CharAt(c, 0) # "<"
    THEN TextLoop(xml_advance(c), Append(text, CharAt(c, 0)))
    ELSE [c |-> c, val |-> text]

\* faulty variant: the text also ends at a whitespace character
RECURSIVE TextLoop_ToSpace(_, _)
TextLoop_ToSpace(c, text) ==
    IF ~xml_eof(c) /\ CharAt(c, 0) # "<" /\ ~xml_is_space(CharAt(c, 0))
    THEN TextLoop_ToSpace(xml_advance(c), Append(text, CharAt(c, 0)))
    ELSE [c |-> c, val |-> text]

xml_read_text_ToSpace(c) == TextLoop_ToSpace(c, <<>>)

xml_read_text(c) == TextLoop(c, <<>>)

xml_read_closing_tag(c0) ==
    LET r == xml_read_name(xml_match(xml_match(c0, "<"), "/"))
    IN  [c |-> xml_match(r.c, ">"), val |-> r.val]

\* faulty variant: at the end of the input the text read so far is returned
RECURSIVE CommentLoop_Partial(_, _, _)
CommentLoop_Partial(c, hyphen, comment) ==
    IF xml_eof(c) THEN [c |-> c, val |-> comment]
    ELSE IF CharAt(c, 0) = "-" /\ ~hyphen
         THEN CommentLoop_Partial(xml_advance(c), TRUE, comment)
    ELSE IF CharAt(c, 0) = "-" /\ hyphen
         THEN [c |-> xml_match(xml_advance(c), ">"), val |-> comment]
    ELSE CommentLoop_Partial(xml_advance(c), FALSE, Append(comment, CharAt(c, 0)))

RECURSIVE CommentLoop(_, _, _)
CommentLoop(c, hyphen, comment) ==
    IF xml_eof(c) THEN [c |-> c, val |-> <<>>]
    ELSE IF CharAt(c, 0) = "-" /\ ~hyphen THEN CommentLoop(xml_advance(c), TRUE, comment)
    ELSE IF CharAt(c, 0) = "-" /\ hyphen
         THEN [c |-> xml_match(xml_advance(c), ">"), val |-> comment]
    ELSE CommentLoop(xml_advance(c), FALSE, Append(comment, CharAt(c, 0)))

\* faulty variant: the blanks of the comment are dropped
RECURSIVE StripBlanks(_)
StripBlanks(str) ==
    IF str = <<>> THEN <<>>
    ELSE IF Head(str) = " " THEN StripBlanks(Tail(str))
    ELSE <<Head(str)>> \o StripBlanks(Tail(str))

xml_read_comment_Trimmed(c0) ==
    LET c1 == xml_match(xml_match(xml_match(xml_match(c0, "<"), "!"), "-"), "-")
    IN  IF Failed(c1) THEN [c |-> c1, val |-> <<>>]
        ELSE LET r == CommentLoop(c1, FALSE, <<>>)
             IN  [c |-> r.c, val |-> StripBlanks(r.val)]

xml_read_comment(c0) ==
    LET c1 == xml_match(xml_match(xml_match(xml_match(c0, "<"), "!"), "-"), "-")
    IN  IF Failed(c1) THEN [c |-> c1, val |-> <<>>]
        ELSE CommentLoop(c1, FALSE, <<>>)

(***************************************************************************)
(* xml_dom_entity: the heap maps an address to the object's members.       *)
(***************************************************************************)
NewEntity == [m_type |-> "INVALID", m_parent |-> NULL, m_child |-> <<>>,
              m_index |-> -1, m_name |-> <<>>, m_value |-> <<>>]

set_type(h, e, type) == [h EXCEPT ![e].m_type = type]

set_name(h, e, name) == [h EXCEPT ![e].m_name = name]

set_value(h, e, value) == [h EXCEPT ![e].m_value = value]

num_children(h, e) == Len(h[e].m_child)

add_child(h, this, child) ==
    LET h1 == [h EXCEPT ![child].m_parent = this]
        h2 == [h1 EXCEPT ![child].m_index = num_children(h1, this)]
    IN  [h2 EXCEPT ![this].m_child = Append(@, child)]

\* new xml_dom_entity() followed by set_type, set_name and set_value: the
\* entity is at address Len(h) + 1
Allocate(h, type, name, value) ==
    LET e == Len(h) + 1
    IN  set_value(set_name(set_type(Append(h, NewEntity), e, type), e, name), e, value)

(***************************************************************************)
(* The DOM builder callbacks, on a record d = [heap, stack].               *)
(***************************************************************************)
Back(st) == st[Len(st)]

\* faulty variant: the new tag is added to the bottom of the stack
xml_dom_begin_tag_cb_ToFront(d, name) ==
    LET h1  == Allocate(d.heap, "TAG", name, <<>>)
        tag == Len(h1)
    IN  [heap |-> add_child(h1, Head(d.stack), tag), stack |-> Append(d.stack, tag)]

xml_dom_begin_tag_cb(d, name) ==
    LET h1  == Allocate(d.heap, "TAG", name, <<>>)
        tag == Len(h1)
    IN  [heap |-> add_child(h1, Back(d.stack), tag), stack |-> Append(d.stack, tag)]

\* faulty variant: the tag stack is not popped
xml_dom_end_tag_cb_NoPop(d, name) ==
    [heap |-> d.heap, stack |-> d.stack]

xml_dom_end_tag_cb(d, name) ==
    [heap |-> d.heap, stack |-> SubSeq(d.stack, 1, Len(d.stack) - 1)]

\* faulty variant: a value that is already set is kept
xml_dom_tag_text_cb_FirstWins(d, text) ==
    IF d.heap[Back(d.stack)].m_value # <<>> THEN d
    ELSE [heap |-> set_value(d.heap, Back(d.stack), text), stack |-> d.stack]

xml_dom_tag_text_cb(d, text) ==
    [heap |-> set_value(d.heap, Back(d.stack), text), stack |-> d.stack]

xml_dom_comment_cb(d, comment) ==
    LET h1 == Allocate(d.heap, "COMMENT", <<>>, comment)
    IN  [heap |-> add_child(h1, Back(d.stack), Len(h1)), stack |-> d.stack]

xml_dom_attribute_cb(d, name, value) ==
    LET h1 == Allocate(d.heap, "ATTRIBUTE", name, value)
    IN  [heap |-> add_child(h1, Back(d.stack), Len(h1)), stack |-> d.stack]

(***************************************************************************)
(* The parser state a step works on, and the callbacks of xml_callbacks:   *)
(* each invocation is recorded in events and handed to the DOM builder.    *)
(***************************************************************************)
State == [c |-> Cursor, events |-> events, heap |-> heap, stack |-> stack,
          callstack |-> callstack, status |-> status]

Event(kind, name, value) == [kind |-> kind, name |-> name, value |-> value]

Deliver(S, ev, d) == [S EXCEPT !.events = Append(@, ev), !.heap = d.heap, !.stack = d.stack]

Builder(S) == [heap |-> S.heap, stack |-> S.stack]

begin_tag(S, name) ==
    Deliver(S, Event("begin_tag", name, <<>>), xml_dom_begin_tag_cb(Builder(S), name))

end_tag(S, name) ==
    Deliver(S, Event("end_tag", name, <<>>), xml_dom_end_tag_cb(Builder(S), name))

tag_text(S, text) ==
    Deliver(S, Event("tag_text", <<>>, text), xml_dom_tag_text_cb(Builder(S), text))

comment(S, text) ==
    Deliver(S, Event("comment", <<>>, text), xml_dom_comment_cb(Builder(S), text))

attribute(S, name, value) ==
    Deliver(S, Event("attribute", name, value), xml_dom_attribute_cb(Builder(S), name, value))

(***************************************************************************)
(* Control: callstack holds one frame per active loop.                     *)
(***************************************************************************)
Frame(loop, tag_name) == [loop |-> loop, tag_name |-> tag_name, first |-> TRUE]

Top(S) == S.callstack[Len(S.callstack)]

Push(S, f) == [S EXCEPT !.callstack = Append(@, f)]

Pop(S) == [S EXCEPT !.callstack = SubSeq(@, 1, Len(@) - 1)]

SetLoop(S, loop) == [S EXCEPT !.callstack[Len(S.callstack)].loop = loop]

\* the exception leaves xml_read_document: nothing runs after it
Throw(S, c) == [S EXCEPT !.c = c, !.status = "error"]

At(S, c) == IF Failed(c) THEN Throw(S, c) ELSE [S EXCEPT !.c = c]

\* back in the caller: the document loop eats space and tests eof again,
\* the body loop of the enclosing tag continues
Resume(S) ==
    IF Top(S).loop = "doc" THEN At(S, xml_eat_space(S.c)) ELSE S

ReturnFromTag(S) == Resume(Pop(S))

\* faulty variant: the begin_tag callback is not invoked
EnterTag_NoBeginTag(S) ==
    LET r == xml_read_name(xml_match(xml_eat_space(S.c), "<"))
    IN  IF Failed(r.c) THEN Throw(S, r.c)
        ELSE Push(At(S, r.c), Frame("attr", r.val))

\* xml_read_tag up to the attribute loop
EnterTag(S) ==
    LET r == xml_read_name(xml_match(xml_eat_space(S.c), "<"))
    IN  IF Failed(r.c) THEN Throw(S, r.c)
        ELSE Push(begin_tag(At(S, r.c), r.val), Frame("attr", r.val))

\* faulty variant: the return after "/>" is missing and the body loop is entered
SelfClose_NoReturn(S, c1) ==
    LET c2 == xml_match(xml_match(c1, "/"), ">")
        S2 == end_tag(At(S, c2), Top(S).tag_name)
    IN  SetLoop(At(S2, xml_eat_space(c2)), "body")

\* the whole tag is closed by "/>": EndTag, and xml_read_tag returns
SelfClose(S, c1) ==
    LET c2 == xml_match(xml_match(c1, "/"), ">")
        S2 == end_tag(At(S, c2), Top(S).tag_name)
    IN  ReturnFromTag(At(S2, xml_eat_space(c2)))

\* one iteration of the attribute loop of xml_read_tag
AttrIterStep(S) ==
    LET c1 == xml_eat_space(S.c)
    IN  IF ~InRange(c1, 0) THEN Throw(S, PeekError(c1, 0))
        ELSE IF xml_is_alpha(CharAt(c1, 0))
             THEN LET n == xml_read_name(c1)
                      v == xml_parse_string(xml_match(xml_eat_space(n.c), "="))
                  IN  IF Failed(v.c) THEN Throw(S, v.c)
                      ELSE attribute(At(S, v.c), n.val, v.val)
        ELSE IF CharAt(c1, 0) = ">"
             THEN SetLoop(At(S, xml_match(c1, ">")), "body")
        ELSE IF CharAt(c1, 0) = "/"
             THEN IF ~InRange(c1, 1) THEN Throw(S, PeekError(c1, 1))
                  ELSE IF CharAt(c1, 1) = ">"
                       THEN SelfClose(S, c1)
                  ELSE At(S, c1)
        ELSE At(S, c1)

\* faulty variant: only the lengths of the two names are compared
NameMismatch_LengthOnly(close_name, tag_name) == Len(close_name) # Len(tag_name)

\* close_name.compare( tag_name ) != 0
NameMismatch(close_name, tag_name) == close_name # tag_name

\* one iteration of the body loop of xml_read_tag
BodyIterStep(S) ==
    LET c1 == xml_eat_space(S.c)
    IN  IF ~InRange(c1, 0) THEN Throw(S, PeekError(c1, 0))
        ELSE IF CharAt(c1, 0) = "<"
             THEN IF ~InRange(c1, 1) THEN Throw(S, PeekError(c1, 1))
                  ELSE IF CharAt(c1, 1) = "/"
                       THEN LET r == xml_read_closing_tag(c1)
                            IN  IF Failed(r.c) THEN Throw(S, r.c)
                                ELSE IF NameMismatch(r.val, Top(S).tag_name)
                                     THEN Throw(S, xml_error(r.c,
                                              [fn |-> "xml_read_tag", close_name |-> r.val,
                                               tag_name |-> Top(S).tag_name,
                                               line |-> r.c.line_number]))
                                ELSE ReturnFromTag(end_tag(At(S, r.c), Top(S).tag_name))
                  ELSE IF CharAt(c1, 1) = "!"
                       THEN LET r == xml_read_comment(c1)
                            IN  IF Failed(r.c) THEN Throw(S, r.c)
                                ELSE comment(At(S, r.c), r.val)
                  ELSE EnterTag(At(S, c1))
        ELSE LET r == xml_read_text(c1)
             IN  tag_text(At(S, r.c), r.val)

\* xml_read_header up to its loop
EnterHeader(S) ==
    LET c1 == xml_match(xml_match(xml_match(xml_match(xml_match(S.c, "<"), "?"), "x"), "m"), "l")
    IN  IF Failed(c1) THEN Throw(S, c1) ELSE Push(At(S, c1), Frame("header", <<>>))

\* one iteration of the loop of xml_read_header
HeaderIterStep(S) ==
    LET c1 == xml_eat_space(S.c)
    IN  IF ~InRange(c1, 0) THEN Throw(S, PeekError(c1, 0))
        ELSE IF xml_is_alpha(CharAt(c1, 0))
             THEN LET n == xml_read_name(c1)
                      v == xml_parse_string(xml_match(xml_eat_space(n.c), "="))
                  IN  At(S, v.c)
        ELSE IF CharAt(c1, 0) = "?"
             THEN IF ~InRange(c1, 1) THEN Throw(S, PeekError(c1, 1))
                  ELSE IF CharAt(c1, 1) = ">"
                       THEN Resume(Pop(At(S, xml_eat_space(xml_match(xml_match(c1, "?"), ">")))))
                  ELSE At(S, c1)
        ELSE At(S, c1)

\* one iteration of the loop of xml_read_document
DocIterStep(S) ==
    LET c == S.c
    IN  IF CharAt(c, 0) = "<"
        THEN IF ~InRange(c, 1) THEN Throw(S, PeekError(c, 1))
             ELSE IF CharAt(c, 1) = "?"
                  THEN IF ~Top(S).first
                       THEN Throw(S, xml_error(c, [fn |-> "xml_read_document",
                                                   msg |-> "header midway"]))
                       ELSE EnterHeader(S)
             ELSE IF CharAt(c, 1) = "!"
                  THEN LET r == xml_read_comment(c)
                       IN  IF Failed(r.c) THEN Throw(S, r.c)
                           ELSE Resume(comment(At(S, r.c), r.val))
             ELSE IF xml_is_alpha(CharAt(c, 1)) THEN EnterTag(S)
             ELSE Resume(S)
        ELSE Throw(S, xml_error(c, [fn |-> "xml_read_document", msg |-> "expected <"]))

(***************************************************************************)
(* The input buffers: the documents of the specification's examples, and   *)
(* every concatenation of at most MaxPieces fragments of markup.           *)
(***************************************************************************)
MaxPieces == 3

DocSelfClose == <<"<", "a", "/", ">">>

DocAttrsText == <<"<", "a", " ", "x", "=", "\"", "1", "\"", " ", "y", "=", "\"", "2", "\"", ">", "h", "i", "<", "/", "a", ">">>

DocComment == <<"<", "a", ">", "<", "!", "-", "-", " ", "c", " ", "-", "-", ">", "<", "/", "a", ">">>

DocMismatch == <<"<", "a", ">", "<", "/", "b", ">">>

DocHeader == <<"<", "?", "x", "m", "l", " ", "v", "e", "r", "s", "i", "o", "n", "=", "\"", "1", ".", "0", "\"", "?", ">", "\n", "<", "a", ">", "h", "i", "<", "b", "/", ">", "h", "o", "<", "/", "a", ">">>

DocMismatchLine == <<"<", "a", ">", "\n", "<", "/", "b", ">">>

DocTextSpans == <<"<", "a", ">", " ", "h", "i", " ", "h", "o", " ", "<", "b", "/", ">", " ", "<", "/", "a", ">">>

DocCommentHyphen == <<"<", "a", ">", "<", "!", "-", "-", "x", "-", "y", "-", "-", ">", "<", "/", "a", ">">>

DocMixedChildren == <<"<", "a", " ", "x", "=", "\"", "1", "\"", ">", "<", "!", "-", "-", "c", "-", "-", ">", "<", "b", "/", ">", "<", "/", "a", ">">>

Examples == {DocSelfClose, DocAttrsText, DocComment, DocMismatch, DocMismatchLine,
             DocHeader, DocTextSpans, DocCommentHyphen, DocMixedChildren}

Pieces == {
    <<"<", "a">>,
    <<"<", "b">>,
    <<">">>,
    <<"/", ">">>,
    <<"<", "/", "a", ">">>,
    <<"<", "/", "b", ">">>,
    <<" ", "x", "=", "\"", "1", "\"">>,
    <<"h", "i">>,
    <<"<", "!", "-", "-">>,
    <<"-", "-", ">">>,
    <<"-">>,
    <<" ">>,
    <<"\n">>,
    <<"<", "?", "x", "m", "l">>,
    <<"?", ">">>,
    <<"<">>,
    <<"1">>}

RECURSIVE Flatten(_)
Flatten(ps) == IF ps = <<>> THEN <<>> ELSE Head(ps) \o Flatten(Tail(ps))

Inputs == Examples \cup
          { Flatten(ps) : ps \in UNION { [1..n -> Pieces] : n \in 0..MaxPieces } }

(***************************************************************************)
(* xml_dom_parse: the state after the xml_state and the Document root are  *)
(* constructed, then xml_read_document one loop iteration at a time.       *)
(***************************************************************************)
DocumentRoot == set_type(<<NewEntity>>, 1, "DOCUMENT")

Init ==
    /\ buffer \in Inputs
    /\ pos = 0
    /\ line_number = 0
    /\ column_number = 0
    /\ err = NoError
    /\ events = <<>>
    /\ callstack = <<>>
    /\ status = "idle"
    /\ heap = DocumentRoot
    /\ stack = <<1>>
    /\ doc = 1
    /\ orig = NULL
    /\ last_step = "none"
    /\ last_pos = 0
    /\ last_count = 0
    /\ result = [op |-> "none"]

\* the step's outcome becomes the next state
Becomes(S, step) ==
    /\ pos' = S.c.pos
    /\ line_number' = S.c.line_number
    /\ column_number' = S.c.column_number
    /\ err' = S.c.err
    /\ events' = S.events
    /\ heap' = S.heap
    /\ stack' = S.stack
    /\ callstack' = S.callstack
    /\ status' = S.status
    /\ last_step' = step
    /\ last_pos' = pos
    /\ last_count' = Len(events)
    /\ UNCHANGED <<buffer, doc, orig, result>>

InLoop(loop) ==
    /\ status = "running"
    /\ callstack # <<>>
    /\ callstack[Len(callstack)].loop = loop

\* xml_read_document up to its loop
DocEnter ==
    /\ status = "idle"
    /\ Becomes([State EXCEPT !.c = xml_eat_space(Cursor),
                             !.callstack = <<Frame("doc", <<>>)>>,
                             !.status = "running"], "DocEnter")

DocIter ==
    /\ InLoop("doc")
    /\ ~xml_eof(Cursor)
    /\ Becomes(DocIterStep(State), "DocIter")

\* the document loop ends and xml_read_document returns
DocExit ==
    /\ InLoop("doc")
    /\ xml_eof(Cursor)
    /\ Becomes([State EXCEPT !.callstack = <<>>, !.status = "returned"], "DocExit")

HeaderIter ==
    /\ InLoop("header")
    /\ ~xml_eof(Cursor)
    /\ Becomes(HeaderIterStep(State), "HeaderIter")

\* the header loop ends at the end of the input and xml_read_header returns
HeaderExit ==
    /\ InLoop("header")
    /\ xml_eof(Cursor)
    /\ Becomes(Resume(Pop(State)), "HeaderExit")

AttrIter ==
    /\ InLoop("attr")
    /\ ~xml_eof(Cursor)
    /\ Becomes(AttrIterStep(State), "AttrIter")

\* the attribute loop ends at the end of the input: on to the body loop
AttrExit ==
    /\ InLoop("attr")
    /\ xml_eof(Cursor)
    /\ Becomes(SetLoop(State, "body"), "AttrExit")

BodyIter ==
    /\ InLoop("body")
    /\ ~xml_eof(Cursor)
    /\ Becomes(BodyIterStep(State), "BodyIter")

\* the body loop ends at the end of the input and xml_read_tag returns
BodyExit ==
    /\ InLoop("body")
    /\ xml_eof(Cursor)
    /\ Becomes(ReturnFromTag(State), "BodyExit")

ParseNext ==
    \/ DocEnter
    \/ DocIter
    \/ DocExit
    \/ HeaderIter
    \/ HeaderExit
    \/ AttrIter
    \/ AttrExit
    \/ BodyIter
    \/ BodyExit

Next == ParseNext

Spec == Init /\ [][Next]_vars

(***************************************************************************)
(* Navigation (xml_dom_entity).  A query returns an address, NULL, or      *)
(* ABORT when one of its assertions fails.  get_child with an index        *)
(* outside the vector fails its assertion, and reads outside the vector    *)
(* when assertions are compiled out: any value may come back (WILD stands  *)
(* for an address of no entity).                                           *)
(***************************************************************************)
ABORT == -1

WILD == -2

IsEntity(h, x) == x \in 1..Len(h)

get_child(h, this, index) ==
    IF h[this].m_type = "INVALID" THEN ABORT
    ELSE IF ~(index >= 0 /\ index < num_children(h, this)) THEN ABORT
    ELSE h[this].m_child[index + 1]

\* every value get_child may return
get_child_outcomes(h, this, index) ==
    IF h[this].m_type # "INVALID" /\ index >= 0 /\ index < num_children(h, this)
    THEN {h[this].m_child[index + 1]}
    ELSE {ABORT, WILD, NULL} \cup (1..Len(h))

first_child(h, this) ==
    IF h[this].m_type = "INVALID" THEN ABORT
    ELSE IF num_children(h, this) > 0 THEN get_child(h, this, 0)
    ELSE NULL

\* faulty variant: the last child is given a successor
next_child_OffByOne(h, this, child) ==
    IF h[child].m_parent # this THEN ABORT
    ELSE IF h[child].m_index >= 0 /\ h[child].m_index < num_children(h, this)
         THEN get_child(h, this, h[child].m_index + 1)
    ELSE NULL

next_child(h, this, child) ==
    IF h[child].m_parent # this THEN ABORT
    ELSE IF h[child].m_index >= 0 /\ h[child].m_index < num_children(h, this) - 1
         THEN get_child(h, this, h[child].m_index + 1)
    ELSE NULL

\* every value previous_child may return
previous_child_outcomes(h, this, child) ==
    IF h[child].m_parent # this THEN {ABORT}
    ELSE IF h[child].m_index >= 0 /\ h[child].m_index < num_children(h, this) - 1
         THEN get_child_outcomes(h, this, h[child].m_index - 1)
    ELSE {NULL}

\* faulty variant: the type of the child is not compared
Matches_NameOnly(h, child, type, name) == h[child].m_name = name

\* child->m_type == type && child->m_name.compare(name) == 0
Matches(h, child, type, name) == h[child].m_type = type /\ h[child].m_name = name

\* the while( child ) loop of first_child(type,name) and next_child(child,type,name)
RECURSIVE ScanNamed(_, _, _, _, _)
ScanNamed(h, this, child, type, name) ==
    IF ~IsEntity(h, child) THEN child
    ELSE IF Matches(h, child, type, name) THEN child
    ELSE ScanNamed(h, this, next_child(h, this, child), type, name)

\* the while( child ) loop of first_child(type) and next_child(child,type)
RECURSIVE ScanTyped(_, _, _, _)
ScanTyped(h, this, child, type) ==
    IF ~IsEntity(h, child) THEN child
    ELSE IF h[child].m_type = type THEN child
    ELSE ScanTyped(h, this, next_child(h, this, child), type)

first_child_typed(h, this, type) ==
    IF h[this].m_type = "INVALID" THEN ABORT
    ELSE IF num_children(h, this) > 0 THEN ScanTyped(h, this, first_child(h, this), type)
    ELSE NULL

first_child_named(h, this, type, name) ==
    IF h[this].m_type = "INVALID" THEN ABORT
    ELSE IF num_children(h, this) > 0
         THEN ScanNamed(h, this, first_child(h, this), type, name)
    ELSE NULL

next_child_typed(h, this, child, type) ==
    IF h[child].m_parent # this THEN ABORT
    ELSE ScanTyped(h, this, next_child(h, this, child), type)

next_child_named(h, this, child, type, name) ==
    IF h[child].m_parent # this THEN ABORT
    ELSE ScanNamed(h, this, next_child(h, this, child), type, name)

first_child_tag(h, this, name) == first_child_named(h, this, "TAG", name)

next_child_tag(h, this, child, name) == next_child_named(h, this, child, "TAG", name)

\* every value a call whose behaviour is undefined may return
AnyOutcome(h) == {ABORT, WILD, NULL} \cup (1..Len(h))

\* previous_child(child) has one outcome: its guard fails, or its index is in range
previous_child_is_defined(h, this, child) ==
    /\ h[child].m_parent = this
    /\ \/ ~(h[child].m_index >= 0 /\ h[child].m_index < num_children(h, this) - 1)
       \/ (h[this].m_type # "INVALID" /\ h[child].m_index - 1 >= 0)

\* the while( child ) loop of previous_child(child,type): every value it may return
RECURSIVE PreviousScanTyped(_, _, _, _)
PreviousScanTyped(h, this, child, type) ==
    IF ~previous_child_is_defined(h, this, child)
    THEN previous_child_outcomes(h, this, child)
    ELSE LET prev == CHOOSE v \in previous_child_outcomes(h, this, child) : TRUE
         IN  IF ~IsEntity(h, prev) THEN {prev}
             ELSE IF h[prev].m_type = type THEN {prev}
             ELSE PreviousScanTyped(h, this, prev, type)

\* the while( child ) loop of previous_child(child,type,name)
RECURSIVE PreviousScanNamed(_, _, _, _, _)
PreviousScanNamed(h, this, child, type, name) ==
    IF ~previous_child_is_defined(h, this, child)
    THEN previous_child_outcomes(h, this, child)
    ELSE LET prev == CHOOSE v \in previous_child_outcomes(h, this, child) : TRUE
         IN  IF ~IsEntity(h, prev) THEN {prev}
             ELSE IF Matches(h, prev, type, name) THEN {prev}
             ELSE PreviousScanNamed(h, this, prev, type, name)

previous_child_typed_outcomes(h, this, child, type) ==
    IF h[child].m_parent # this THEN {ABORT}
    ELSE PreviousScanTyped(h, this, child, type)

previous_child_named_outcomes(h, this, child, type, name) ==
    IF h[child].m_parent # this THEN {ABORT}
    ELSE PreviousScanNamed(h, this, child, type, name)

previous_sibling_outcomes(h, this) ==
    IF h[this].m_parent = NULL THEN {NULL}
    ELSE previous_child_outcomes(h, h[this].m_parent, this)

previous_sibling_typed_outcomes(h, this, type) ==
    IF h[this].m_parent = NULL THEN {NULL}
    ELSE previous_child_typed_outcomes(h, h[this].m_parent, this, type)

previous_sibling_named_outcomes(h, this, type, name) ==
    IF h[this].m_parent = NULL THEN {NULL}
    ELSE previous_child_named_outcomes(h, h[this].m_parent, this, type, name)

\* faulty variant: the parent's first child is returned
next_sibling_FirstChild(h, this) ==
    IF h[this].m_parent = NULL THEN NULL ELSE first_child(h, h[this].m_parent)

next_sibling(h, this) ==
    IF h[this].m_parent = NULL THEN NULL ELSE next_child(h, h[this].m_parent, this)

next_sibling_named(h, this, type, name) ==
    IF h[this].m_parent = NULL THEN NULL
    ELSE next_child_named(h, h[this].m_parent, this, type, name)

next_sibling_typed(h, this, type) ==
    IF h[this].m_parent = NULL THEN NULL
    ELSE next_child_typed(h, h[this].m_parent, this, type)

\* a caller's loop: first_child_tag(name), then next_child_tag(previous, name)
\* until NULL; the entities returned, in order
RECURSIVE VisitFrom(_, _, _, _)
VisitFrom(h, this, child, name) ==
    IF child = NULL THEN <<>>
    ELSE IF ~IsEntity(h, child) THEN <<child>>
    ELSE <<child>> \o VisitFrom(h, this, next_child_tag(h, this, child, name), name)

VisitTags(h, this, name) == VisitFrom(h, this, first_child_tag(h, this, name), name)

(***************************************************************************)
(* The stream operator: the characters written to the output, and whether  *)
(* xml_error was raised.                                                   *)
(***************************************************************************)
Endl == <<"\n">>

HeaderLine == <<"<", "?", "x", "m", "l", " ", "v", "e", "r", "s", "i", "o", "n", "=",
                "\"", "1", ".", "0", "\"", "?", ">">>

\* the while( attr ) loop
RECURSIVE StreamAttributes(_, _)
StreamAttributes(h, attr) ==
    IF ~IsEntity(h, attr) THEN <<>>
    ELSE <<" ">> \o h[attr].m_name \o <<"=", "\"">> \o h[attr].m_value \o <<"\"">>
         \o StreamAttributes(h, next_sibling_typed(h, attr, "ATTRIBUTE"))

HasContent(h, item) ==
    first_child_typed(h, item, "TAG") # NULL \/ Len(h[item].m_value) > 0

StreamOpening(h, item) ==
    IF h[item].m_type = "TAG"
    THEN <<"<">> \o h[item].m_name
         \o StreamAttributes(h, first_child_typed(h, item, "ATTRIBUTE"))
         \o (IF ~HasContent(h, item) THEN <<" ", "/", ">">> \o Endl
             ELSE <<">">> \o h[item].m_value \o Endl)
    ELSE IF h[item].m_type = "COMMENT"
         THEN <<"<", "!", "-", "-", " ">> \o h[item].m_value \o <<"-", "-", ">">> \o Endl
    ELSE IF h[item].m_type = "DOCUMENT" THEN HeaderLine \o Endl
    ELSE <<>>

StreamClosing(h, item) ==
    IF h[item].m_type = "TAG" /\ HasContent(h, item)
    THEN <<"<", "/">> \o h[item].m_name \o <<">">> \o Endl
    ELSE <<>>

RECURSIVE Stream(_, _)
RECURSIVE StreamChildren(_, _)
\* the while( child ) loop
StreamChildren(h, child) ==
    IF ~IsEntity(h, child) THEN <<>>
    ELSE (IF h[child].m_type # "ATTRIBUTE" THEN Stream(h, child).out ELSE <<>>)
         \o StreamChildren(h, next_sibling(h, child))

\* faulty variant: an Attribute is not refused
Stream_NoAttributeCheck(h, item) ==
    [out |-> StreamOpening(h, item) \o StreamChildren(h, first_child(h, item))
             \o StreamClosing(h, item),
     error |-> FALSE]

Stream(h, item) ==
    IF h[item].m_type = "ATTRIBUTE" THEN [out |-> <<>>, error |-> TRUE]
    ELSE [out |-> StreamOpening(h, item) \o StreamChildren(h, first_child(h, item))
                  \o StreamClosing(h, item),
          error |-> FALSE]

(***************************************************************************)
(* The mutation interface.  A caller holds the Document root it created    *)
(* and calls add_tag, add_attribute, add_comment, set_value and add_child  *)
(* on entities of the tree; a failed assertion aborts the process.         *)
(***************************************************************************)
MaxEntities == 4

MaxRoundTrip == 3

MaxShared == 3

MaxEdges == 3

TagNames == {<<"a">>, <<"b">>}

AttrName == <<"a">>

AttrValue == <<"1">>

CommentText == <<"c">>

TagValue == <<"v">>

InitBuild ==
    /\ buffer = <<>>
    /\ pos = 0
    /\ line_number = 0
    /\ column_number = 0
    /\ err = NoError
    /\ events = <<>>
    /\ callstack = <<>>
    /\ status = "build"
    /\ heap = DocumentRoot
    /\ stack = <<>>
    /\ doc = NULL
    /\ orig = 1
    /\ last_step = "none"
    /\ last_pos = 0
    /\ last_count = 0
    /\ result = [op |-> "none"]

Entities == 1..Len(heap)

Aborts(step) ==
    /\ status' = "aborted"
    /\ last_step' = step
    /\ UNCHANGED <<buffer, pos, line_number, column_number, err, events, callstack,
                   heap, stack, doc, orig, last_pos, last_count, result>>

Mutates(h, step) ==
    /\ heap' = h
    /\ last_step' = step
    /\ UNCHANGED <<buffer, pos, line_number, column_number, err, events, callstack,
                   status, stack, doc, orig, last_pos, last_count, result>>

IsContainer(h, e) == h[e].m_type = "TAG" \/ h[e].m_type = "DOCUMENT"

add_tag(h, this, name) == add_child(Allocate(h, "TAG", name, <<>>), this, Len(h) + 1)

add_attribute(h, this, name, value) ==
    add_child(Allocate(h, "ATTRIBUTE", name, value), this, Len(h) + 1)

add_comment(h, this, text) ==
    add_child(Allocate(h, "COMMENT", <<>>, text), this, Len(h) + 1)

AddTag(max) ==
    /\ status = "build"
    /\ Len(heap) < max
    /\ \E this \in Entities, name \in TagNames :
          IF IsContainer(heap, this) THEN Mutates(add_tag(heap, this, name), "add_tag")
          ELSE Aborts("add_tag")

AddAttribute(max) ==
    /\ status = "build"
    /\ Len(heap) < max
    /\ \E this \in Entities :
          IF IsContainer(heap, this)
          THEN Mutates(add_attribute(heap, this, AttrName, AttrValue), "add_attribute")
          ELSE Aborts("add_attribute")

AddComment(max) ==
    /\ status = "build"
    /\ Len(heap) < max
    /\ \E this \in Entities :
          IF IsContainer(heap, this)
          THEN Mutates(add_comment(heap, this, CommentText), "add_comment")
          ELSE Aborts("add_comment")

SetValue ==
    /\ status = "build"
    /\ \E this \in Entities :
          /\ heap[this].m_type = "TAG"
          /\ heap[this].m_value = <<>>
          /\ Mutates(set_value(heap, this, TagValue), "set_value")

\* the number of entries of all child sequences
RECURSIVE Edges(_, _)
Edges(h, e) == IF e = 0 THEN 0 ELSE Len(h[e].m_child) + Edges(h, e - 1)

\* add_child with an entity the caller holds: any entity of the tree
AddChild ==
    /\ status = "build"
    /\ Edges(heap, Len(heap)) < MaxEdges
    /\ \E this \in Entities, child \in Entities :
          IF heap[this].m_type = "INVALID" THEN Aborts("add_child")
          ELSE Mutates(add_child(heap, this, child), "add_child")

(***************************************************************************)
(* The destructor.  `delete e` runs ~xml_dom_entity on e, which deletes    *)
(* the children of e in index order, and then frees e.  The record d holds *)
(* the entities whose deletion has begun, the entities freed so far in     *)
(* order, and whether an entity was deleted a second time; what happens    *)
(* after a second deletion is undefined, so the record stops there.        *)
(***************************************************************************)
NothingDeleted == [begun |-> {}, freed |-> <<>>, twice |-> FALSE]

RECURSIVE delete(_, _, _)
RECURSIVE DestructorLoop(_, _, _, _)
\* for( int i=0; i<(int)m_child.size(); i++ ) delete m_child[i];
DestructorLoop(h, this, i, d) ==
    IF d.twice \/ i >= num_children(h, this) THEN d
    ELSE DestructorLoop(h, this, i + 1, delete(h, h[this].m_child[i + 1], d))

delete(h, e, d) ==
    IF d.twice THEN d
    ELSE IF e \in d.begun THEN [d EXCEPT !.twice = TRUE]
    ELSE LET d1 == DestructorLoop(h, e, 0, [d EXCEPT !.begun = @ \cup {e}])
         IN  IF d1.twice THEN d1 ELSE [d1 EXCEPT !.freed = Append(@, e)]

(***************************************************************************)
(* Navigation queries on a tree built with add_tag, add_attribute and      *)
(* add_comment: the caller passes a child of the entity it asks.           *)
(***************************************************************************)
Answers(r) ==
    /\ result' = r
    /\ status' = "queried"
    /\ last_step' = r.op
    /\ UNCHANGED <<buffer, pos, line_number, column_number, err, events, callstack,
                   heap, stack, doc, orig, last_pos, last_count>>

Children(e) == {heap[e].m_child[i] : i \in 1..Len(heap[e].m_child)}

QueryNextChild ==
    /\ status = "build"
    /\ \E this \in Entities : \E child \in Children(this) :
          Answers([op |-> "next_child", this |-> this, child |-> child, name |-> <<>>,
                   value |-> next_child(heap, this, child)])

QueryPreviousChild ==
    /\ status = "build"
    /\ \E this \in Entities : \E child \in Children(this) :
          \E v \in previous_child_outcomes(heap, this, child) :
              Answers([op |-> "previous_child", this |-> this, child |-> child,
                       name |-> <<>>, value |-> v])

QueryChildTags ==
    /\ status = "build"
    /\ \E this \in Entities, name \in TagNames :
          Answers([op |-> "child_tags", this |-> this, child |-> NULL, name |-> name,
                   value |-> VisitTags(heap, this, name)])

EntityTypes == {"TAG", "ATTRIBUTE", "COMMENT"}

\* a sibling operation of an entity of the tree: without argument, with a
\* type, with a type and a name, forwards and backwards
QuerySibling ==
    /\ status = "build"
    /\ \E this \in Entities, type \in EntityTypes, name \in TagNames :
          \/ Answers([op |-> "next_sibling", this |-> this, type |-> "", name |-> <<>>,
                      value |-> next_sibling(heap, this)])
          \/ Answers([op |-> "next_sibling_typed", this |-> this, type |-> type,
                      name |-> <<>>, value |-> next_sibling_typed(heap, this, type)])
          \/ Answers([op |-> "next_sibling_named", this |-> this, type |-> type,
                      name |-> name, value |-> next_sibling_named(heap, this, type, name)])
          \/ \E v \in previous_sibling_outcomes(heap, this) :
                Answers([op |-> "previous_sibling", this |-> this, type |-> "",
                         name |-> <<>>, value |-> v])
          \/ \E v \in previous_sibling_typed_outcomes(heap, this, type) :
                Answers([op |-> "previous_sibling_typed", this |-> this, type |-> type,
                         name |-> <<>>, value |-> v])
          \/ \E v \in previous_sibling_named_outcomes(heap, this, type, name) :
                Answers([op |-> "previous_sibling_named", this |-> this, type |-> type,
                         name |-> name, value |-> v])

\* output << item, for an entity of the tree
StreamEntity ==
    /\ status = "build"
    /\ \E item \in Entities :
          Answers([op |-> "stream", this |-> item, value |-> Stream(heap, item).out,
                   error |-> Stream(heap, item).error])

\* the caller deletes the Document root
Destroy ==
    /\ status = "build"
    /\ Answers([op |-> "delete", this |-> orig, child |-> NULL, name |-> <<>>,
                value |-> delete(heap, orig, NothingDeleted)])

NavNext ==
    \/ AddTag(MaxEntities)
    \/ AddAttribute(MaxEntities)
    \/ AddComment(MaxEntities)
    \/ QueryNextChild
    \/ QueryPreviousChild
    \/ QueryChildTags
    \/ QuerySibling
    \/ StreamEntity
    \/ Destroy

SpecNav == InitBuild /\ [][NavNext]_vars

(***************************************************************************)
(* add_child with entities that are already in the tree.                   *)
(***************************************************************************)
SharedNext ==
    \/ AddTag(MaxShared)
    \/ AddAttribute(MaxShared)
    \/ AddComment(MaxShared)
    \/ AddChild
    \/ Destroy

SpecShared == InitBuild /\ [][SharedNext]_vars

(***************************************************************************)
(* Round trip: the tree the caller built is streamed into a buffer and the *)
(* buffer is parsed by xml_dom_parse.                                      *)
(***************************************************************************)
StreamAndParse ==
    /\ status = "build"
    /\ ~Stream(heap, orig).error
    /\ buffer' = Stream(heap, orig).out
    /\ heap' = set_type(Append(heap, NewEntity), Len(heap) + 1, "DOCUMENT")
    /\ doc' = Len(heap) + 1
    /\ stack' = <<Len(heap) + 1>>
    /\ status' = "idle"
    /\ last_step' = "stream"
    /\ UNCHANGED <<pos, line_number, column_number, err, events, callstack, orig,
                   last_pos, last_count, result>>

RoundTripNext ==
    \/ AddTag(MaxRoundTrip)
    \/ AddAttribute(MaxRoundTrip)
    \/ AddComment(MaxRoundTrip)
    \/ SetValue
    \/ StreamAndParse
    \/ DocEnter
    \/ DocIter
    \/ DocExit
    \/ HeaderIter
    \/ AttrIter
    \/ BodyIter

SpecRoundTrip == InitBuild /\ [][RoundTripNext]_vars

(***************************************************************************)
(* Helpers of the properties                                               *)
(***************************************************************************)
Last(q) == q[Len(q)]

Kinds(evs) == [i \in 1..Len(evs) |-> evs[i].kind]

Names(evs) == [i \in 1..Len(evs) |-> evs[i].name]

Count(evs, kind) == Cardinality({i \in 1..Len(evs) : evs[i].kind = kind})

\* the names of the tags begun and not yet ended, outermost first
RECURSIVE OpenTags(_)
OpenTags(evs) ==
    IF evs = <<>> THEN <<>>
    ELSE LET before == OpenTags(SubSeq(evs, 1, Len(evs) - 1))
         IN  IF Last(evs).kind = "begin_tag" THEN Append(before, Last(evs).name)
             ELSE IF Last(evs).kind = "end_tag" /\ before # <<>>
                  THEN SubSeq(before, 1, Len(before) - 1)
             ELSE before

\* the index of the first character at or after index k + 1 that is no space
RECURSIVE SkipSpaces(_)
SkipSpaces(k) ==
    IF k < Len(buffer) /\ buffer[k + 1] \in SpaceChars THEN SkipSpaces(k + 1) ELSE k

NewlinesBefore(k) == Cardinality({i \in 1..k : buffer[i] = "\n"})

Finished == status \in {"returned", "error"}

IterSteps == {"DocIter", "HeaderIter", "AttrIter", "BodyIter"}

(***************************************************************************)
(* C1: every iteration of the document loop, of the tag attribute loop, of *)
(* the tag body loop and of the header attribute loop strictly increases   *)
(* pos or raises an error, so the parser terminates on every input.        *)
(***************************************************************************)
C1_EveryIterationAdvances ==
    last_step \in IterSteps => (status = "error" \/ pos > last_pos)

(***************************************************************************)
(* C2: the Attribute events of a tag come right after its BeginTag, in     *)
(* source order, before any Text, Comment, child BeginTag or its EndTag;   *)
(* <a x="1" y="2">hi</a> gives BeginTag a, Attribute x, Attribute y,       *)
(* Text hi, EndTag a.                                                      *)
(***************************************************************************)
AttributesFirst(e) ==
    \A i \in 1..Len(heap[e].m_child) :
        heap[heap[e].m_child[i]].m_type = "ATTRIBUTE" =>
            \A j \in 1..i : heap[heap[e].m_child[j]].m_type = "ATTRIBUTE"

C2_AttributesAfterBeginTag ==
    /\ \A i \in 1..Len(events) :
          events[i].kind = "attribute" =>
              /\ i > 1
              /\ events[i - 1].kind \in {"begin_tag", "attribute"}
    /\ \A e \in 1..Len(heap) : heap[e].m_type = "TAG" => AttributesFirst(e)
    /\ (buffer = DocAttrsText /\ Finished) =>
          /\ status = "returned"
          /\ Kinds(events) = <<"begin_tag", "attribute", "attribute", "tag_text", "end_tag">>
          /\ Names(events) = << <<"a">>, <<"x">>, <<"y">>, <<>>, <<"a">> >>
          /\ events[4].value = <<"h", "i">>

C2_Witness ==
    /\ buffer = DocAttrsText
    /\ status = "returned"
    /\ Count(events, "attribute") = 2

(***************************************************************************)
(* C3: a self-closing tag gives BeginTag(name), its attributes, then       *)
(* EndTag(name) with the same name and no Text or Comment event, and       *)
(* xml_read_tag returns on "/>" without scanning a body; <a/> gives        *)
(* exactly BeginTag a, EndTag a.                                           *)
(***************************************************************************)
\* the attribute loop iteration just taken met "/>"
SelfClosedNow ==
    /\ last_step = "AttrIter"
    /\ LET k == SkipSpaces(last_pos)
       IN  /\ k + 2 <= Len(buffer)
           /\ buffer[k + 1] = "/"
           /\ buffer[k + 2] = ">"

\* the index of the last event before the last one that is no Attribute event
RECURSIVE BeforeAttributes(_)
BeforeAttributes(i) ==
    IF i >= 1 /\ events[i].kind = "attribute" THEN BeforeAttributes(i - 1) ELSE i

C3_SelfClosingTag ==
    /\ SelfClosedNow =>
          /\ status = "running"
          /\ Len(events) >= 2
          /\ Last(events).kind = "end_tag"
          /\ LET b == BeforeAttributes(Len(events) - 1)
             IN  /\ b >= 1
                 /\ events[b].kind = "begin_tag"
                 /\ events[b].name = Last(events).name
          /\ Len(callstack) = Len(OpenTags(events)) + 1
          /\ Last(callstack).loop \in {"doc", "body"}
          /\ pos = SkipSpaces(SkipSpaces(last_pos) + 2)
    /\ (buffer = DocSelfClose /\ Finished) =>
          /\ status = "returned"
          /\ events = <<Event("begin_tag", <<"a">>, <<>>), Event("end_tag", <<"a">>, <<>>)>>

C3_Witness ==
    /\ buffer = DocSelfClose
    /\ status = "returned"
    /\ Len(events) = 2

(***************************************************************************)
(* C4: <a><!-- c --></a> gives BeginTag a, Comment, EndTag a.  As claimed, *)
(* the Comment payload is "c" without the blanks around it; as amended,    *)
(* the payload is " c ", every character between <!-- and -->.             *)
(***************************************************************************)
C4_CommentTrimmed ==
    (buffer = DocComment /\ Finished) =>
        /\ status = "returned"
        /\ events = <<Event("begin_tag", <<"a">>, <<>>),
                      Event("comment", <<>>, <<"c">>),
                      Event("end_tag", <<"a">>, <<>>)>>

C4_CommentVerbatim ==
    (buffer = DocComment /\ Finished) =>
        /\ status = "returned"
        /\ events = <<Event("begin_tag", <<"a">>, <<>>),
                      Event("comment", <<>>, <<" ", "c", " ">>),
                      Event("end_tag", <<"a">>, <<>>)>>

C4_Witness ==
    /\ buffer = DocComment
    /\ status = "returned"
    /\ Count(events, "comment") = 1

(***************************************************************************)
(* C5: a closing tag whose name differs from the name of the tag being     *)
(* parsed is a fatal error naming the closing name, the tag name and the   *)
(* current line; no EndTag of that tag and no later event is emitted.      *)
(***************************************************************************)
OpenTag(name) == <<"<">> \o name

CloseTag(name) == <<"<", "/">> \o name \o <<">">>

C5_ClosingNameMismatch ==
    /\ err.fn = "xml_read_tag" =>
          /\ status = "error"
          /\ err.close_name # err.tag_name
          /\ OpenTags(events) # <<>>
          /\ Last(OpenTags(events)) = err.tag_name
          /\ heap[Last(stack)].m_name = err.tag_name
          /\ Len(stack) = Len(OpenTags(events)) + 1
          /\ err.line = line_number
          /\ err.line = NewlinesBefore(pos)
    /\ status = "error" => ~ENABLED Next
    /\ \A n1 \in TagNames, n2 \in TagNames :
          (buffer = OpenTag(n1) \o <<">">> \o CloseTag(n2) /\ Finished) =>
              IF n1 = n2
              THEN status = "returned" /\ Kinds(events) = <<"begin_tag", "end_tag">>
              ELSE /\ status = "error"
                   /\ err = [fn |-> "xml_read_tag", close_name |-> n2, tag_name |-> n1,
                             line |-> 0]
                   /\ events = <<Event("begin_tag", n1, <<>>)>>
    /\ (buffer = DocMismatchLine /\ Finished) =>
          err = [fn |-> "xml_read_tag", close_name |-> <<"b">>, tag_name |-> <<"a">>,
                 line |-> 1]

C5_Witness ==
    /\ buffer = DocMismatch
    /\ status = "error"
    /\ err.fn = "xml_read_tag"
    /\ events = <<Event("begin_tag", <<"a">>, <<>>)>>

(***************************************************************************)
(* C6: round trip.  A tree built from a Document root with add_tag,        *)
(* add_attribute, add_comment and set_value, streamed and parsed again by  *)
(* xml_dom_parse, gives a tree with the same type, name, value and         *)
(* children at every node.                                                 *)
(***************************************************************************)
RECURSIVE TreeEq(_, _, _)
TreeEq(h, a, b) ==
    /\ h[a].m_type = h[b].m_type
    /\ h[a].m_name = h[b].m_name
    /\ h[a].m_value = h[b].m_value
    /\ Len(h[a].m_child) = Len(h[b].m_child)
    /\ \A i \in 1..Len(h[a].m_child) : TreeEq(h, h[a].m_child[i], h[b].m_child[i])

\* the Document root holds tags only (its attributes are never written, and
\* the round trip fails for them too)
TagsAtTop(h, root) ==
    \A i \in 1..Len(h[root].m_child) : h[h[root].m_child[i]].m_type = "TAG"

C6_RoundTrip ==
    (orig # NULL /\ doc # NULL /\ Finished /\ TagsAtTop(heap, orig)) =>
        /\ status = "returned"
        /\ TreeEq(heap, orig, doc)

(***************************************************************************)
(* C7: for a parent with n children at indices 0..n-1, next_child of the   *)
(* child at index i is the child at index i+1 for i < n-1 and NULL for     *)
(* i = n-1.                                                                *)
(***************************************************************************)
\* the child sequence of p holds each child at its own index, and p is its parent
ChildrenIndexed(p) ==
    \A i \in 1..Len(heap[p].m_child) :
        /\ heap[heap[p].m_child[i]].m_index = i - 1
        /\ heap[heap[p].m_child[i]].m_parent = p

\* the child after position i (1-based) of p's child sequence, or NULL
After(p, i) == IF i < Len(heap[p].m_child) THEN heap[p].m_child[i + 1] ELSE NULL

\* the child before position i (1-based) of p's child sequence, or NULL
Before(p, i) == IF i > 1 THEN heap[p].m_child[i - 1] ELSE NULL

C7_NextChild ==
    /\ \A p \in Entities :
          ChildrenIndexed(p) =>
              \A i \in 1..Len(heap[p].m_child) :
                  next_child(heap, p, heap[p].m_child[i]) = After(p, i)
    /\ result.op = "next_child" =>
          result.value = After(result.this, heap[result.child].m_index + 1)

C7_Witness ==
    /\ result.op = "next_child"
    /\ Len(heap[result.this].m_child) = 3
    /\ result.child = heap[result.this].m_child[2]
    /\ result.value = heap[result.this].m_child[3]

(***************************************************************************)
(* C8: previous_child is the inverse of next_child: for a parent with n    *)
(* children, previous_child of the child at index i is the child at index  *)
(* i-1 for i > 0 and NULL for i = 0, with no assertion failing and no read *)
(* outside the child sequence.                                             *)
(***************************************************************************)
C8_PreviousChild ==
    result.op = "previous_child" =>
        result.value = Before(result.this, heap[result.child].m_index + 1)

(***************************************************************************)
(* C9: first_child_tag(name) is the matching tag of lowest index, and      *)
(* next_child_tag(previous, name) repeated until NULL visits every tag     *)
(* child of that name once, in index order, and nothing else.              *)
(***************************************************************************)
MatchingTags(p, name) ==
    SelectSeq(heap[p].m_child,
              LAMBDA c : heap[c].m_type = "TAG" /\ heap[c].m_name = name)

C9_ChildTags ==
    /\ \A p \in Entities, name \in TagNames :
          ChildrenIndexed(p) =>
              /\ VisitTags(heap, p, name) = MatchingTags(p, name)
              /\ first_child_tag(heap, p, name) =
                    IF MatchingTags(p, name) = <<>> THEN NULL
                    ELSE Head(MatchingTags(p, name))
    /\ result.op = "child_tags" =>
          result.value = MatchingTags(result.this, result.name)

C9_Witness ==
    /\ result.op = "child_tags"
    /\ Len(heap[result.this].m_child) = 3
    /\ heap[heap[result.this].m_child[2]].m_type # "TAG"
    /\ result.value = <<heap[result.this].m_child[1], heap[result.this].m_child[3]>>

(***************************************************************************)
(* C10: index invariant.  For every entity p and every position i of p's   *)
(* child sequence, the entity stored at position i has m_index = i and     *)
(* m_parent = p.                                                           *)
(***************************************************************************)
C10_IndexInvariant == \A p \in Entities : ChildrenIndexed(p)

(***************************************************************************)
(* C11: single ownership and acyclicity.  After any sequence of add_child, *)
(* add_tag, add_attribute and add_comment calls on entities of a tree,     *)
(* every entity occurs in at most one child sequence and at most once in   *)
(* it, no entity is its own ancestor, and the parent references of every   *)
(* entity lead to the Document root.                                       *)
(***************************************************************************)
\* the places (parent, position) where entity e is stored
Owners(e) ==
    {pi \in Entities \X (1..Len(heap)) :
        pi[2] <= Len(heap[pi[1]].m_child) /\ heap[pi[1]].m_child[pi[2]] = e}

\* the entities met by following m_parent from e, for at most n steps
RECURSIVE ParentChain(_, _)
ParentChain(e, n) ==
    IF n = 0 \/ heap[e].m_parent = NULL THEN {}
    ELSE {heap[e].m_parent} \cup ParentChain(heap[e].m_parent, n - 1)

C11_SingleOwnership ==
    \A e \in Entities :
        /\ Cardinality(Owners(e)) <= 1
        /\ e \notin ParentChain(e, Len(heap))
        /\ e = orig \/ orig \in ParentChain(e, Len(heap))

(***************************************************************************)
(* C12: a header is accepted only as the very first top-level construct.   *)
(* When the document loop meets "<?" after it has consumed an earlier      *)
(* top-level construct, the parse fails with an error.                     *)
(***************************************************************************)
C12_HeaderOnlyFirst ==
    (/\ last_step = "DocIter"
     /\ last_pos > SkipSpaces(0)
     /\ last_pos + 2 <= Len(buffer)
     /\ buffer[last_pos + 1] = "<"
     /\ buffer[last_pos + 2] = "?")
    => status = "error"

(***************************************************************************)
(* C13: whenever xml_dom_parse returns normally, the construction stack    *)
(* holds exactly one element, the Document root created at the start, and  *)
(* that root is the value returned.                                        *)
(***************************************************************************)
\* return stack.front()
xml_dom_parse_result == Head(stack)

C13_StackIsRootOnReturn ==
    status = "returned" => (stack = <<doc>> /\ xml_dom_parse_result = doc)

(***************************************************************************)
(* C14: add_child is legal only on Document and Tag entities: on an        *)
(* Attribute or a Comment it is rejected and leaves the entity without     *)
(* children, so no Attribute or Comment entity ever has a child.           *)
(***************************************************************************)
C14_OnlyContainersHaveChildren ==
    \A e \in Entities :
        heap[e].m_type \in {"ATTRIBUTE", "COMMENT"} => heap[e].m_child = <<>>

(***************************************************************************)
(* C15: destroying the Document root destroys every entity reachable from  *)
(* it through child sequences, each exactly once: when the destructor is   *)
(* done no descendant remains allocated and no entity was deleted twice.   *)
(***************************************************************************)
\* the entities reachable from the entities of S through child sequences
RECURSIVE Reachable(_, _)
Reachable(S, n) ==
    IF n = 0 THEN S
    ELSE Reachable(S \cup UNION {Children(e) : e \in S}, n - 1)

C15_DestructorFreesOnce ==
    result.op = "delete" =>
        /\ ~result.value.twice
        /\ {result.value.freed[i] : i \in 1..Len(result.value.freed)}
              = Reachable({orig}, Len(heap))

(***************************************************************************)
(* C16: every sibling operation called on an entity whose parent is null   *)
(* returns NULL; called on an entity with a parent it returns what the     *)
(* parent's next_child or previous_child query of the same type and name,  *)
(* started from that entity, returns.                                      *)
(***************************************************************************)
\* what the parent's query may return
ParentQuery(r) ==
    LET p == heap[r.this].m_parent
    IN  CASE r.op = "next_sibling" -> {next_child(heap, p, r.this)}
          [] r.op = "next_sibling_typed" -> {next_child_typed(heap, p, r.this, r.type)}
          [] r.op = "next_sibling_named" ->
                {next_child_named(heap, p, r.this, r.type, r.name)}
          [] r.op = "previous_sibling" -> previous_child_outcomes(heap, p, r.this)
          [] r.op = "previous_sibling_typed" ->
                previous_child_typed_outcomes(heap, p, r.this, r.type)
          [] r.op = "previous_sibling_named" ->
                previous_child_named_outcomes(heap, p, r.this, r.type, r.name)

SiblingOps == {"next_sibling", "next_sibling_typed", "next_sibling_named",
               "previous_sibling", "previous_sibling_typed", "previous_sibling_named"}

C16_SiblingsDelegate ==
    result.op \in SiblingOps =>
        IF heap[result.this].m_parent = NULL THEN result.value = NULL
        ELSE result.value \in ParentQuery(result)

\* the second of three children answers next_sibling() with the third
C16_Witness ==
    /\ result.op = "next_sibling"
    /\ heap[result.this].m_parent # NULL
    /\ heap[result.this].m_index = 1
    /\ IsEntity(heap, result.value)
    /\ heap[result.value].m_index = 2

(***************************************************************************)
(* C17: streaming an entity of type Attribute directly raises an error and *)
(* writes nothing to the output.                                           *)
(***************************************************************************)
C17_AttributeNotStreamed ==
    (result.op = "stream" /\ heap[result.this].m_type = "ATTRIBUTE")
    => (result.error /\ result.value = <<>>)

\* an Attribute of a tag was streamed
C17_Witness ==
    /\ result.op = "stream"
    /\ heap[result.this].m_type = "ATTRIBUTE"
    /\ heap[heap[result.this].m_parent].m_type = "TAG"
    /\ result.error

(***************************************************************************)
(* C18: in a tag body every span of characters between two markup          *)
(* constructs, whitespace-only spans included, produces exactly one Text   *)
(* event whose payload is exactly the characters of the span up to the     *)
(* next "<".  Stated for an iteration of the body loop that starts right   *)
(* after the ">" of a markup construct, at a span that is not empty and    *)
(* that a "<" ends, and that raises no error.                              *)
(***************************************************************************)
\* the index of the first "<" at or after index k + 1, or the end of the input
RECURSIVE NextLt(_)
NextLt(k) == IF k < Len(buffer) /\ buffer[k + 1] # "<" THEN NextLt(k + 1) ELSE k

TextEvent(first, last) == Event("tag_text", <<>>, SubSeq(buffer, first, last))

C18_EverySpanIsText ==
    (/\ last_step = "BodyIter"
     /\ status # "error"
     /\ last_pos >= 1
     /\ last_pos < Len(buffer)
     /\ buffer[last_pos] = ">"
     /\ buffer[last_pos + 1] # "<"
     /\ NextLt(last_pos) < Len(buffer))
    => /\ Len(events) = last_count + 1
       /\ Last(events) = TextEvent(last_pos + 1, NextLt(last_pos))

(***************************************************************************)
(* C18 as amended: an iteration of the body loop first skips whitespace.   *)
(* A span with a character that is no whitespace produces exactly one Text *)
(* event, whose payload runs from the first such character up to the next  *)
(* "<" or the end of the input; an empty or whitespace-only span produces  *)
(* no Text event.  No Text event is empty or starts with whitespace.       *)
(***************************************************************************)
C18_TextSpans ==
    /\ \A i \in 1..Len(events) :
          events[i].kind = "tag_text" =>
              /\ events[i].value # <<>>
              /\ ~xml_is_space(Head(events[i].value))
              /\ \A j \in 1..Len(events[i].value) : events[i].value[j] # "<"
    /\ last_step = "BodyIter" =>
          LET k == SkipSpaces(last_pos)
          IN  IF k < Len(buffer) /\ buffer[k + 1] # "<"
              THEN /\ status = "running"
                   /\ Len(events) = last_count + 1
                   /\ Last(events) = TextEvent(k + 1, NextLt(k))
                   /\ pos = NextLt(k)
              ELSE \A i \in (last_count + 1)..Len(events) : events[i].kind # "tag_text"

\* a span with blanks before, inside and after its text was delivered
C18_Witness ==
    /\ last_step = "BodyIter"
    /\ buffer = DocTextSpans
    /\ Last(events) = Event("tag_text", <<>>, <<"h", "i", " ", "h", "o", " ">>)
    /\ SkipSpaces(last_pos) > last_pos

(***************************************************************************)
(* C19: the value an Attribute event delivers is exactly the characters    *)
(* between the opening and the closing double quote of the attribute:      *)
(* nothing is added or removed, and its length is the number of characters *)
(* between the quotes.                                                     *)
(***************************************************************************)
\* the index of the last double quote at or before index k, or 0
RECURSIVE PreviousQuote(_)
PreviousQuote(k) ==
    IF k = 0 \/ buffer[k] = "\"" THEN k ELSE PreviousQuote(k - 1)

C19_AttributeValueVerbatim ==
    (/\ last_step = "AttrIter"
     /\ Len(events) = last_count + 1
     /\ Last(events).kind = "attribute")
    => /\ buffer[pos] = "\""
       /\ Last(events).value = SubSeq(buffer, PreviousQuote(pos - 1) + 1, pos - 1)
       /\ Len(Last(events).value) = pos - 1 - PreviousQuote(pos - 1)

(***************************************************************************)
(* C20: the comment reader ends a comment only at two consecutive "-"      *)
(* followed by ">", and keeps every "-" that is not part of that           *)
(* terminator: the text of a Comment event is every character between     *)
(* "<!--" and the terminating "-->", hyphens included.                     *)
(***************************************************************************)
IsAt(k, str) ==
    /\ k + Len(str) <= Len(buffer)
    /\ SubSeq(buffer, k + 1, k + Len(str)) = str

\* the number of characters before the first "-->" that starts at or after
\* index k + 1, or the length of the input when there is none
RECURSIVE CommentEnd(_)
CommentEnd(k) ==
    IF k >= Len(buffer) \/ IsAt(k, <<"-", "-", ">">>) THEN k ELSE CommentEnd(k + 1)

C20_CommentKeepsHyphens ==
    LET k == SkipSpaces(last_pos)
    IN  (/\ last_step \in {"DocIter", "BodyIter"}
         /\ status # "error"
         /\ IsAt(k, <<"<", "!", "-", "-">>)
         /\ CommentEnd(k + 4) < Len(buffer))
        => /\ Len(events) = last_count + 1
           /\ Last(events) =
                 Event("comment", <<>>, SubSeq(buffer, k + 5, CommentEnd(k + 4)))

(***************************************************************************)
(* C21: when the input is exhausted inside a comment before the "-->"      *)
(* terminator, the comment reader raises no error and returns the partial  *)
(* comment text accumulated so far, which is emitted as a Comment event.   *)
(* Stated for a comment whose text holds no "-".                           *)
(***************************************************************************)
\* a comment starts at index k + 1 and no "-->" follows its "<!--"
UnterminatedAt(k) ==
    /\ IsAt(k, <<"<", "!", "-", "-">>)
    /\ CommentEnd(k + 4) = Len(buffer)

Unrecognized(k) ==
    \/ buffer[k + 1] # "<"
    \/ /\ k + 2 <= Len(buffer)
       /\ buffer[k + 2] \notin {"?", "!"}
       /\ ~xml_is_alpha(buffer[k + 2])

C22_UnrecognizedRejected ==
    (last_step = "DocIter" /\ Unrecognized(last_pos)) => status = "error"

(***************************************************************************)
(* C23: DOM builder structure.  The parent of every entity is the entity   *)
(* of the tag that encloses it in the source (the Document root at top     *)
(* level), every child sequence lists the attributes, comments and child   *)
(* tags in the order of their events, and the construction stack is the    *)
(* root followed by the tags that are open, so Comment and Attribute       *)
(* events never change it.                                                 *)
(***************************************************************************)
CreatingKinds == {"begin_tag", "attribute", "comment"}

TypeOfKind(kind) ==
    CASE kind = "begin_tag" -> "TAG"
      [] kind = "attribute" -> "ATTRIBUTE"
      [] kind = "comment" -> "COMMENT"

\* the entity the i-th event created: entities are allocated in event order
EntityOf(i) ==
    doc + Cardinality({j \in 1..i : events[j].kind \in CreatingKinds})

\* the indices of the BeginTag events not yet ended after the first n events
RECURSIVE OpenEvents(_)
OpenEvents(n) ==
    IF n = 0 THEN <<>>
    ELSE LET before == OpenEvents(n - 1)
         IN  IF events[n].kind = "begin_tag" THEN Append(before, n)
             ELSE IF events[n].kind = "end_tag" /\ before # <<>>
                  THEN SubSeq(before, 1, Len(before) - 1)
             ELSE before

\* the entity that encloses the i-th event
Encloser(i) ==
    IF OpenEvents(i - 1) = <<>> THEN doc ELSE EntityOf(Last(OpenEvents(i - 1)))

RECURSIVE Ascending(_)
Ascending(S) ==
    IF S = {} THEN <<>>
    ELSE LET m == CHOOSE x \in S : \A y \in S : x <= y
         IN  <<m>> \o Ascending(S \ {m})

C23_BuilderStructure ==
    LET creating == {i \in 1..Len(events) : events[i].kind \in CreatingKinds}
    IN  /\ Len(heap) = doc + Cardinality(creating)
        /\ \A i \in creating :
              /\ heap[EntityOf(i)].m_type = TypeOfKind(events[i].kind)
              /\ heap[EntityOf(i)].m_name = events[i].name
              /\ heap[EntityOf(i)].m_parent = Encloser(i)
        /\ \A e \in Entities :
              heap[e].m_child = Ascending({EntityOf(i) : i \in {j \in creating : Encloser(j) = e}})
        /\ stack = <<doc>> \o [n \in 1..Len(OpenEvents(Len(events))) |->
                                  EntityOf(OpenEvents(Len(events))[n])]

\* a tag with an attribute, a comment and a child tag was parsed
C23_Witness ==
    /\ status = "returned"
    /\ buffer = DocMixedChildren
    /\ heap[2].m_child = <<3, 4, 5>>
    /\ heap[5].m_type = "TAG"
    /\ heap[5].m_parent = 2

(***************************************************************************)
(* C24: when several Text events are emitted for the same tag, the value   *)
(* of the tag in the DOM is the payload of the last of them, and the event *)
(* stream still holds every text run in document order.                    *)
(***************************************************************************)
\* the indices of the Text events emitted inside entity e
TextsOf(e) == {j \in 1..Len(events) : events[j].kind = "tag_text" /\ Encloser(j) = e}

\* the payloads of the Text events, in order
RECURSIVE TextRuns(_)
TextRuns(evs) ==
    IF evs = <<>> THEN <<>>
    ELSE IF Head(evs).kind = "tag_text" THEN <<Head(evs).value>> \o TextRuns(Tail(evs))
    ELSE TextRuns(Tail(evs))

C24_LastTextWins ==
    /\ \A e \in Entities :
          heap[e].m_type \in {"TAG", "DOCUMENT"} =>
              heap[e].m_value =
                  IF TextsOf(e) = {} THEN <<>>
                  ELSE events[CHOOSE j \in TextsOf(e) : \A k \in TextsOf(e) : k <= j].value
    /\ (buffer = DocHeader /\ status = "returned")
          => TextRuns(events) = << <<"h", "i">>, <<"h", "o">> >>

\* two text runs around a child tag: the tag holds the second
C24_Witness ==
    /\ status = "returned"
    /\ buffer = DocHeader
    /\ Cardinality(TextsOf(2)) = 2
    /\ heap[2].m_value = <<"h", "o">>

(***************************************************************************)
(* C25: serializing a Tag emits its opening markup, then all of its        *)
(* non-attribute children in order, then its closing tag, so that the      *)
(* output of every child lies between the opening and the closing markup;  *)
(* the self-closing form is used only for a tag whose output has nothing   *)
(* to enclose.                                                             *)
(***************************************************************************)
\* the opening markup up to, not including, the ">" or " />"
OpeningOf(item) ==
    <<"<">> \o heap[item].m_name
    \o StreamAttributes(heap, first_child_typed(heap, item, "ATTRIBUTE"))

ClosingOf(item) == <<"<", "/">> \o heap[item].m_name \o <<">">> \o Endl

\* the output of the non-attribute children of item, in order
ChildrenOutput(item) == StreamChildren(heap, first_child(heap, item))

C25_TagEnclosesChildren ==
    (result.op = "stream" /\ heap[result.this].m_type = "TAG")
    => \/ result.value = OpeningOf(result.this) \o <<">">> \o heap[result.this].m_value
                         \o Endl \o ChildrenOutput(result.this) \o ClosingOf(result.this)
       \/ /\ result.value = OpeningOf(result.this) \o <<" ", "/", ">">> \o Endl
          /\ ChildrenOutput(result.this) = <<>>

(***************************************************************************)
(* C26: a call p.add_child(c), add_tag, add_attribute or add_comment       *)
(* changes only the child sequence of p, by appending c at the end, and    *)
(* the parent and index of c; the order and the indices of the existing    *)
(* children of p and the parent, index, name, value and child sequence of  *)
(* every other entity are unchanged, and no step removes or reorders a     *)
(* child.                                                                  *)
(***************************************************************************)
\* the step from heap to heap' is an append of c to p and nothing else
AppendsOnly(p, c) ==
    /\ heap'[p].m_child = Append(heap[p].m_child, c)
    /\ \A k \in 1..Len(heap[p].m_child) :
          heap'[heap[p].m_child[k]].m_index = heap[heap[p].m_child[k]].m_index
    /\ \A e \in Entities \ {p, c} : heap'[e] = heap[e]
    /\ p # c => heap'[p] = [heap[p] EXCEPT !.m_child = Append(@, c)]
    /\ (c \in Entities /\ c # p) =>
          heap'[c] = [heap[c] EXCEPT !.m_parent = heap'[c].m_parent,
                                     !.m_index = heap'[c].m_index]

C26_AppendOnlyFrame ==
    [][heap' # heap => \E p \in Entities, c \in 1..Len(heap') : AppendsOnly(p, c)]_vars

(***************************************************************************)
(* C27: in every state reached during a parse, line_number is the number   *)
(* of newline characters in buffer[0..pos) and column_number is the number *)
(* of characters consumed since the last consumed newline, or since the    *)
(* start; pos never decreases and the buffer is never modified.            *)
(***************************************************************************)
\* the number of characters of buffer[0..k) up to and including the last newline
RECURSIVE LastNewline(_)
LastNewline(k) ==
    IF k = 0 THEN 0
    ELSE IF buffer[k] = "\n" THEN k
    ELSE LastNewline(k - 1)

C27_CursorTracking ==
    /\ [](/\ line_number = NewlinesBefore(pos)
          /\ column_number = pos - LastNewline(pos))
    /\ [][pos' >= pos /\ buffer' = buffer]_vars

\* a parse that consumed a newline and characters after it
C27_Witness ==
    /\ status = "returned"
    /\ line_number >= 1
    /\ column_number >= 2
    /\ LastNewline(pos) >= 2

(***************************************************************************)
(* C28: in every state reached during a parse, 0 <= pos <= length(buffer); *)
(* the parser never reads a character outside the buffer and never         *)
(* advances past its end: an attempted access outside the buffer, as when  *)
(* the input is truncated in the middle of a construct, raises the fatal   *)
(* error instead, and the cursor stays where it was.                       *)
(***************************************************************************)
C28_BoundsSafety ==
    /\ 0 <= pos /\ pos <= Len(buffer)
    /\ err.fn = "xml_peek" =>
          /\ status = "error"
          /\ err.size = Len(buffer)
          /\ err.index < 0 \/ err.index >= Len(buffer)
          /\ err.index >= pos

\* an input truncated in the middle of a construct: the read at the end of
\* the buffer raised the error
C28_Witness ==
    /\ status = "error"
    /\ err.fn = "xml_peek"
    /\ err.index = Len(buffer)
    /\ pos = Len(buffer)
    /\ Len(events) >= 1

(***************************************************************************)
(* C29: in every prefix of the event stream of any parse, each EndTag      *)
(* closes the most recent BeginTag not yet closed and carries its name, so *)
(* the number of EndTag events never exceeds the number of BeginTag        *)
(* events; the construction stack of the DOM builder has the Document root *)
(* at the bottom, is never empty, and its depth is one more than the       *)
(* number of open tags.                                                    *)
(***************************************************************************)
\* the events before the k-th
Prefix(k) == SubSeq(events, 1, k - 1)

C29_WellNested ==
    /\ \A k \in 1..Len(events) :
          /\ events[k].kind = "end_tag" =>
                /\ OpenTags(Prefix(k)) # <<>>
                /\ Last(OpenTags(Prefix(k))) = events[k].name
          /\ Count(Prefix(k + 1), "end_tag") <= Count(Prefix(k + 1), "begin_tag")
    /\ stack # <<>>
    /\ Head(stack) = doc
    /\ Len(stack) = 1 + Len(OpenTags(events))

\* inside an open tag, after a nested tag was closed
C29_Witness ==
    /\ Count(events, "end_tag") >= 1
    /\ Len(OpenTags(events)) >= 1
    /\ Len(stack) = 2
    /\ Last(events).kind = "end_tag"

(***************************************************************************)
(* C30: whenever xml_read_document returns without raising an error, every *)
(* BeginTag event has been followed by its matching EndTag event: the      *)
(* numbers of BeginTag and EndTag events are equal and no tag is left      *)
(* open.  An input that ends while a tag is still open is not accepted.    *)
(***************************************************************************)
C30_BalancedOnSuccess ==
    status = "returned" =>
        /\ Count(events, "begin_tag") = Count(events, "end_tag")
        /\ OpenTags(events) = <<>>

====
